---- MODULE Spec2Model ----
(***************************************************************************)
(* Cursor motion of a single text cursor (MoveOperations): left, right,   *)
(* up, down, line/buffer boundaries, with the optional virtual space and  *)
(* the vertical column hint.  The operations are pure functions of the    *)
(* configuration, the line model and the cursor state; the state machine  *)
(* applies them, one action per entry point, to a cursor over a buffer.   *)
(***************************************************************************)
EXTENDS Integers, Sequences, FiniteSets, TLC

VARIABLES lines, hidden, config, cursor, lastOp, before, vcalls, hintRun, stickyRun, steps

vars == <<lines, hidden, config, cursor, lastOp, before, vcalls, hintRun, stickyRun, steps>>

(***************************************************************************)
(* Bounds of the model.                                                    *)
(***************************************************************************)
MaxCount == 2
MaxSteps == 3
MaxLeftover == 2

(***************************************************************************)
(* Program constants.                                                      *)
(***************************************************************************)
MAX_SAFE_SMALL_INTEGER == 1073741824
MaxRetries == 10

\* columnHint: number | null -- null is written Null (a real hint is >= 0)
Null == -1000

Min(a, b) == IF a < b THEN a ELSE b
Max(a, b) == IF a > b THEN a ELSE b

Position(l, c) == [lineNumber |-> l, column |-> c]

CursorPosition(l, c, left, hint) ==
    [lineNumber |-> l, column |-> c, leftoverVisibleColumns |-> left, columnHint |-> hint]

(***************************************************************************)
(* The line model (ICursorSimpleModel).  A line is a sequence of UTF-16   *)
(* code units: "a" a letter, " " a space, "T" a tab, "H"/"L" the high and *)
(* low half of a surrogate pair.                                           *)
(***************************************************************************)
getLineCount == Len(lines)
getLineContent(lineNumber) == lines[lineNumber]
getLineMinColumn(lineNumber) == 1
getLineMaxColumn(lineNumber) == Len(lines[lineNumber]) + 1

IsWhitespace(ch) == ch \in {" ", "T"}

RECURSIVE firstNonWhitespaceIndex(_, _)
firstNonWhitespaceIndex(content, i) ==
    IF i > Len(content) THEN -1
    ELSE IF ~IsWhitespace(content[i]) THEN i - 1
    ELSE firstNonWhitespaceIndex(content, i + 1)

\* 0 for a blank line, else the 1-based column of the first non-blank
getLineFirstNonWhitespaceColumn(lineNumber) ==
    LET r == firstNonWhitespaceIndex(lines[lineNumber], 1)
    IN  IF r = -1 THEN 0 ELSE r + 1

\* number of leading whitespace units + 1
getLineIndentColumn(lineNumber) ==
    LET r == firstNonWhitespaceIndex(lines[lineNumber], 1)
    IN  IF r = -1 THEN Len(lines[lineNumber]) + 1 ELSE r + 1

\* the nearest line that is not hidden: the closest one above, else below
RECURSIVE visibleAbove(_)
visibleAbove(l) ==
    IF l < 1 THEN 0 ELSE IF l \notin hidden THEN l ELSE visibleAbove(l - 1)

RECURSIVE visibleBelow(_)
visibleBelow(l) ==
    IF l > Len(lines) THEN 0 ELSE IF l \notin hidden THEN l ELSE visibleBelow(l + 1)

\* A position on a line whose whole content is hidden is mapped to the end
\* of the closest visible line above it (to the start of the closest one
\* below when there is none above); every other position is kept.
normalizePosition(position, affinity) ==
    IF position.lineNumber \in hidden
    THEN LET up == visibleAbove(position.lineNumber)
         IN  IF up # 0 THEN Position(up, getLineMaxColumn(up))
             ELSE Position(visibleBelow(position.lineNumber), 1)
    ELSE position

(***************************************************************************)
(* strings.prevCharLength / strings.nextCharLength: a surrogate pair is   *)
(* one character of two units, a lone half is one unit.                    *)
(***************************************************************************)
prevCharLength(content, offset) ==
    IF offset >= 2 /\ content[offset] = "L" /\ content[offset - 1] = "H" THEN 2 ELSE 1

nextCharLength(content, offset) ==
    IF offset + 2 <= Len(content) /\ content[offset + 1] = "H" /\ content[offset + 2] = "L"
    THEN 2 ELSE 1

\* a column is a character boundary when it does not split a surrogate pair
IsBoundary(content, column) ==
    ~(column >= 2 /\ column <= Len(content)
      /\ content[column - 1] = "H" /\ content[column] = "L")

(***************************************************************************)
(* CursorColumns.                                                          *)
(***************************************************************************)
nextRenderTabStop(visibleColumn, tabSize) ==
    visibleColumn + tabSize - (visibleColumn % tabSize)

\* width of the character starting at 1-based index i of text
CharUnits(text, i) ==
    IF i + 1 <= Len(text) /\ text[i] = "H" /\ text[i + 1] = "L" THEN 2 ELSE 1

\* _nextVisibleColumn: a tab goes to the next tab stop, a surrogate pair
\* (an emoji) is two cells wide, anything else one
nextVisibleColumn(text, i, visibleColumn, tabSize) ==
    IF text[i] = "T" THEN nextRenderTabStop(visibleColumn, tabSize)
    ELSE IF CharUnits(text, i) = 2 THEN visibleColumn + 2
    ELSE visibleColumn + 1

RECURSIVE visibleColumnLoop(_, _, _, _)
visibleColumnLoop(text, i, result, tabSize) ==
    IF i > Len(text) THEN result
    ELSE visibleColumnLoop(text, i + CharUnits(text, i),
                           nextVisibleColumn(text, i, result, tabSize), tabSize)

visibleColumnFromColumn(lineContent, column, tabSize) ==
    LET textLen == Min(column - 1, Len(lineContent))
        text == SubSeq(lineContent, 1, textLen)
    IN  visibleColumnLoop(text, 1, 0, tabSize)

RECURSIVE columnFromVisibleLoop(_, _, _, _, _)
columnFromVisibleLoop(lineContent, i, beforeVisibleColumn, visibleColumn, tabSize) ==
    IF i > Len(lineContent) THEN Len(lineContent) + 1
    ELSE LET afterVisibleColumn == nextVisibleColumn(lineContent, i, beforeVisibleColumn, tabSize)
             afterColumn == i + CharUnits(lineContent, i)
         IN  IF afterVisibleColumn >= visibleColumn
             THEN IF afterVisibleColumn - visibleColumn < visibleColumn - beforeVisibleColumn
                  THEN afterColumn ELSE i
             ELSE columnFromVisibleLoop(lineContent, afterColumn, afterVisibleColumn,
                                        visibleColumn, tabSize)

CursorColumns_columnFromVisibleColumn(lineContent, visibleColumn, tabSize) ==
    IF visibleColumn <= 0 THEN 1
    ELSE columnFromVisibleLoop(lineContent, 1, 0, visibleColumn, tabSize)

\* CursorConfiguration.columnFromVisibleColumn: the column on the line,
\* kept inside the line's column range
columnFromVisibleColumn(lineNumber, visibleColumn) ==
    LET result == CursorColumns_columnFromVisibleColumn(getLineContent(lineNumber),
                                                        visibleColumn, config.tabSize)
    IN  IF result < getLineMinColumn(lineNumber) THEN getLineMinColumn(lineNumber)
        ELSE IF result > getLineMaxColumn(lineNumber) THEN getLineMaxColumn(lineNumber)
        ELSE result

(***************************************************************************)
(* AtomicTabMoveOperations: positions and results are 0-based, -1 means   *)
(* that no atomic stop applies.                                            *)
(***************************************************************************)
RECURSIVE whitespaceVisibleColumnLoop(_, _, _, _, _, _, _)
whitespaceVisibleColumnLoop(lineContent, position, tabSize, i, visibleColumn, prevTabStopPosition, prevTabStopVisibleColumn) ==
    IF i = Len(lineContent)
    THEN IF position = Len(lineContent)
         THEN <<prevTabStopPosition, prevTabStopVisibleColumn, visibleColumn>>
         ELSE <<-1, -1, -1>>
    ELSE IF i = position
    THEN <<prevTabStopPosition, prevTabStopVisibleColumn, visibleColumn>>
    ELSE LET atStop == visibleColumn % tabSize = 0
             p == IF atStop THEN i ELSE prevTabStopPosition
             v == IF atStop THEN visibleColumn ELSE prevTabStopVisibleColumn
             ch == lineContent[i + 1]
         IN  IF ch = " "
             THEN whitespaceVisibleColumnLoop(lineContent, position, tabSize, i + 1,
                                              visibleColumn + 1, p, v)
             ELSE IF ch = "T"
             THEN whitespaceVisibleColumnLoop(lineContent, position, tabSize, i + 1,
                                              nextRenderTabStop(visibleColumn, tabSize), p, v)
             ELSE <<-1, -1, -1>>

whitespaceVisibleColumn(lineContent, position, tabSize) ==
    whitespaceVisibleColumnLoop(lineContent, position, tabSize, 0, 0, -1, -1)

\* scan right from position i until the visible column reaches target
RECURSIVE atomicScan(_, _, _, _, _, _)
atomicScan(lineContent, tabSize, i, currentVisibleColumn, target, found) ==
    IF currentVisibleColumn = target THEN IF found = -2 THEN i ELSE found
    ELSE IF i >= Len(lineContent) THEN -1
    ELSE LET ch == lineContent[i + 1]
         IN  IF ch = " "
             THEN atomicScan(lineContent, tabSize, i + 1, currentVisibleColumn + 1, target, found)
             ELSE IF ch = "T"
             THEN atomicScan(lineContent, tabSize, i + 1,
                             nextRenderTabStop(currentVisibleColumn, tabSize), target, found)
             ELSE -1

atomicPosition(lineContent, position, tabSize, direction) ==
    LET w == whitespaceVisibleColumn(lineContent, position, tabSize)
        prevTabStopPosition == w[1]
        prevTabStopVisibleColumn == w[2]
        visibleColumn == w[3]
    IN  IF visibleColumn = -1 THEN -1
        ELSE IF direction = "Left"
        THEN IF prevTabStopPosition = -1 THEN -1
             \* a full indentation must follow the previous tab stop
             ELSE atomicScan(lineContent, tabSize, prevTabStopPosition,
                             prevTabStopVisibleColumn, prevTabStopVisibleColumn + tabSize,
                             prevTabStopPosition)
        ELSE atomicScan(lineContent, tabSize, position, visibleColumn,
                        nextRenderTabStop(visibleColumn, tabSize), -2)

(***************************************************************************)
(* SingleCursorState.  The selection start of the cursors of this model   *)
(* is an empty range, written as its position.                             *)
(***************************************************************************)
SingleCursorState(selectionStart, selectionStartLeftoverVisibleColumns, position, leftoverVisibleColumns, columnHint) ==
    [selectionStart |-> selectionStart,
     selectionStartLeftoverVisibleColumns |-> selectionStartLeftoverVisibleColumns,
     position |-> position,
     leftoverVisibleColumns |-> leftoverVisibleColumns,
     columnHint |-> columnHint]

isBefore(p, q) ==
    p.lineNumber < q.lineNumber \/ (p.lineNumber = q.lineNumber /\ p.column < q.column)

\* the selection spans the selection start and the active position
selectionStartPosition(c) ==
    IF isBefore(c.position, c.selectionStart) THEN c.position ELSE c.selectionStart

selectionEndPosition(c) ==
    IF isBefore(c.position, c.selectionStart) THEN c.selectionStart ELSE c.position

\* with virtual space two ends on the same column but with different
\* leftovers are a selection, too
hasSelection(c, virtualSpace) ==
    \/ c.selectionStart # c.position
    \/ (virtualSpace /\ c.selectionStartLeftoverVisibleColumns # c.leftoverVisibleColumns)

startEnd(c) ==
    CursorPosition(c.selectionStart.lineNumber, c.selectionStart.column,
                   c.selectionStartLeftoverVisibleColumns, Null)

activeEnd(c) ==
    CursorPosition(c.position.lineNumber, c.position.column, c.leftoverVisibleColumns, Null)

startIsLeft(c) ==
    \/ isBefore(c.selectionStart, c.position)
    \/ (c.selectionStart = c.position
        /\ c.selectionStartLeftoverVisibleColumns <= c.leftoverVisibleColumns)

leftmostPosition(c) == IF startIsLeft(c) THEN startEnd(c) ELSE activeEnd(c)

rightmostPosition(c) == IF startIsLeft(c) THEN activeEnd(c) ELSE startEnd(c)

\* virtualSpacePosition that leaves the leftover out
virtualSpacePositionWithoutLeftover(c) == c.position

virtualSpacePosition(c) ==
    Position(c.position.lineNumber, c.position.column + c.leftoverVisibleColumns)

move(c, inSelectionMode, lineNumber, column, leftoverVisibleColumns, columnHint) ==
    IF inSelectionMode
    THEN SingleCursorState(c.selectionStart, c.selectionStartLeftoverVisibleColumns,
                           Position(lineNumber, column), leftoverVisibleColumns, columnHint)
    ELSE SingleCursorState(Position(lineNumber, column), leftoverVisibleColumns,
                           Position(lineNumber, column), leftoverVisibleColumns, columnHint)

(***************************************************************************)
(* MoveOperations: the horizontal steps.                                   *)
(***************************************************************************)
\* leftPosition that does not wrap to the previous line
leftPositionNoWrap(position) ==
    IF position.column > getLineMinColumn(position.lineNumber)
    THEN Position(position.lineNumber,
                  position.column - prevCharLength(getLineContent(position.lineNumber),
                                                   position.column - 1))
    ELSE position

\* leftPosition that steps one code unit whatever the character
leftPositionOneUnit(position) ==
    IF position.column > getLineMinColumn(position.lineNumber)
    THEN Position(position.lineNumber, position.column - 1)
    ELSE IF position.lineNumber > 1
    THEN Position(position.lineNumber - 1, getLineMaxColumn(position.lineNumber - 1))
    ELSE position

leftPosition(position) ==
    IF position.column > getLineMinColumn(position.lineNumber)
    THEN Position(position.lineNumber,
                  position.column - prevCharLength(getLineContent(position.lineNumber),
                                                   position.column - 1))
    ELSE IF position.lineNumber > 1
    THEN Position(position.lineNumber - 1, getLineMaxColumn(position.lineNumber - 1))
    ELSE position

leftPositionAtomicSoftTabs(position, tabSize) ==
    LET newPosition == atomicPosition(getLineContent(position.lineNumber),
                                      position.column - 1, tabSize, "Left")
    IN  IF /\ position.column <= getLineIndentColumn(position.lineNumber)
           /\ newPosition # -1
           /\ newPosition + 1 >= getLineMinColumn(position.lineNumber)
        THEN Position(position.lineNumber, newPosition + 1)
        ELSE leftPosition(position)

\* left that asks the tab-stop scanner whatever stickyTabStops is
leftAlwaysAtomic(position) ==
    leftPositionAtomicSoftTabs(position, config.tabSize)

left(position) ==
    IF config.stickyTabStops
    THEN leftPositionAtomicSoftTabs(position, config.tabSize)
    ELSE leftPosition(position)

\* clipRange that forgets the upper end
clipRangeNoMax(value, min, max) ==
    IF value < min THEN min ELSE value

clipRange(value, min, max) ==
    IF value < min THEN min ELSE IF value > max THEN max ELSE value

clipPositionColumn(position) ==
    Position(position.lineNumber,
             clipRange(position.column, getLineMinColumn(position.lineNumber),
                       getLineMaxColumn(position.lineNumber)))

rightPosition(lineNumber, column) ==
    IF column < getLineMaxColumn(lineNumber)
    THEN Position(lineNumber, column + nextCharLength(getLineContent(lineNumber), column - 1))
    ELSE IF lineNumber < getLineCount
    THEN Position(lineNumber + 1, getLineMinColumn(lineNumber + 1))
    ELSE Position(lineNumber, column)

rightPositionAtomicSoftTabs(lineNumber, column, tabSize) ==
    LET newPosition == atomicPosition(getLineContent(lineNumber), column - 1, tabSize, "Right")
    IN  IF column < getLineIndentColumn(lineNumber) /\ newPosition # -1
        THEN Position(lineNumber, newPosition + 1)
        ELSE rightPosition(lineNumber, column)

right(position) ==
    IF config.stickyTabStops
    THEN rightPositionAtomicSoftTabs(position.lineNumber, position.column, config.tabSize)
    ELSE rightPosition(position.lineNumber, position.column)

(***************************************************************************)
(* moveLeft / moveRight.                                                   *)
(***************************************************************************)
\* moveLeft that leaves the virtual space in one step
moveLeftDroppingLeftover(c, inSelectionMode, noOfColumns) ==
    IF hasSelection(c, TRUE) /\ ~inSelectionMode
    THEN LET p == leftmostPosition(c)
         IN  move(c, inSelectionMode, p.lineNumber, p.column, p.leftoverVisibleColumns, Null)
    ELSE LET vp == virtualSpacePosition(c)
             pos == Position(vp.lineNumber, vp.column - (noOfColumns - 1))
             clippedPos == clipPositionColumn(pos)
             leftoverVisibleColumns == Max(0, pos.column - clippedPos.column)
             normalizedPos == normalizePosition(clippedPos, "Left")
         IN  IF leftoverVisibleColumns > 0
             THEN move(c, inSelectionMode, normalizedPos.lineNumber, normalizedPos.column,
                       0, Null)
             ELSE IF normalizedPos.column > getLineMinColumn(normalizedPos.lineNumber)
             THEN LET p == left(normalizedPos)
                  IN  move(c, inSelectionMode, p.lineNumber, p.column, 0, Null)
             ELSE move(c, inSelectionMode, normalizedPos.lineNumber, normalizedPos.column,
                       0, Null)

moveLeftWithVirtualSpace(c, inSelectionMode, noOfColumns) ==
    IF hasSelection(c, TRUE) /\ ~inSelectionMode
    THEN LET p == leftmostPosition(c)
         IN  move(c, inSelectionMode, p.lineNumber, p.column, p.leftoverVisibleColumns, Null)
    ELSE LET vp == virtualSpacePosition(c)
             pos == Position(vp.lineNumber, vp.column - (noOfColumns - 1))
             clippedPos == clipPositionColumn(pos)
             leftoverVisibleColumns == Max(0, pos.column - clippedPos.column)
             normalizedPos == normalizePosition(clippedPos, "Left")
         IN  IF leftoverVisibleColumns > 0
             THEN move(c, inSelectionMode, normalizedPos.lineNumber, normalizedPos.column,
                       leftoverVisibleColumns - 1, Null)
             ELSE IF normalizedPos.column > getLineMinColumn(normalizedPos.lineNumber)
             THEN LET p == left(normalizedPos)
                  IN  move(c, inSelectionMode, p.lineNumber, p.column, 0, Null)
             ELSE move(c, inSelectionMode, normalizedPos.lineNumber, normalizedPos.column,
                       0, Null)

\* moveLeft that collapses a selection to its end
moveLeftCollapsingToEnd(c, inSelectionMode, noOfColumns) ==
    IF hasSelection(c, FALSE) /\ ~inSelectionMode
    THEN move(c, inSelectionMode, selectionEndPosition(c).lineNumber,
              selectionEndPosition(c).column, 0, Null)
    ELSE LET pos == Position(c.position.lineNumber, c.position.column - (noOfColumns - 1))
             normalizedPos == normalizePosition(clipPositionColumn(pos), "Left")
             p == left(normalizedPos)
         IN  move(c, inSelectionMode, p.lineNumber, p.column, 0, Null)

moveLeftWithoutVirtualSapce(c, inSelectionMode, noOfColumns) ==
    IF hasSelection(c, FALSE) /\ ~inSelectionMode
    THEN move(c, inSelectionMode, selectionStartPosition(c).lineNumber,
              selectionStartPosition(c).column, 0, Null)
    ELSE LET pos == Position(c.position.lineNumber, c.position.column - (noOfColumns - 1))
             normalizedPos == normalizePosition(clipPositionColumn(pos), "Left")
             p == left(normalizedPos)
         IN  move(c, inSelectionMode, p.lineNumber, p.column, 0, Null)

moveLeft(c, inSelectionMode, noOfColumns) ==
    IF config.virtualSpace
    THEN moveLeftWithVirtualSpace(c, inSelectionMode, noOfColumns)
    ELSE moveLeftWithoutVirtualSapce(c, inSelectionMode, noOfColumns)

\* moveRight that steps over the line end into the next line
moveRightCrossingLineEnd(c, inSelectionMode, noOfColumns) ==
    IF hasSelection(c, TRUE) /\ ~inSelectionMode
    THEN LET r == rightmostPosition(c)
         IN  move(c, inSelectionMode, r.lineNumber, r.column, r.leftoverVisibleColumns, Null)
    ELSE LET vp == virtualSpacePosition(c)
             pos == Position(vp.lineNumber, vp.column + (noOfColumns - 1))
             normalizedPos == normalizePosition(clipPositionColumn(pos), "Right")
             r == right(normalizedPos)
         IN  move(c, inSelectionMode, r.lineNumber, r.column, 0, Null)

moveRightWithVirtualSpace(c, inSelectionMode, noOfColumns) ==
    IF hasSelection(c, TRUE) /\ ~inSelectionMode
    THEN LET r == rightmostPosition(c)
         IN  move(c, inSelectionMode, r.lineNumber, r.column, r.leftoverVisibleColumns, Null)
    ELSE LET vp == virtualSpacePosition(c)
             pos == Position(vp.lineNumber, vp.column + (noOfColumns - 1))
             clippedPos == clipPositionColumn(pos)
             normalizedPos == normalizePosition(clippedPos, "Right")
         IN  IF normalizedPos.column < getLineMaxColumn(normalizedPos.lineNumber)
             THEN LET r == right(normalizedPos)
                  IN  move(c, inSelectionMode, r.lineNumber, r.column, 0, Null)
             ELSE move(c, inSelectionMode, normalizedPos.lineNumber, normalizedPos.column,
                       Max(1, pos.column - clippedPos.column + 1), Null)

moveRightWithoutVirtualSpace(c, inSelectionMode, noOfColumns) ==
    IF hasSelection(c, FALSE) /\ ~inSelectionMode
    THEN move(c, inSelectionMode, selectionEndPosition(c).lineNumber,
              selectionEndPosition(c).column, 0, Null)
    ELSE LET pos == Position(c.position.lineNumber, c.position.column + (noOfColumns - 1))
             normalizedPos == normalizePosition(clipPositionColumn(pos), "Right")
             r == right(normalizedPos)
         IN  move(c, inSelectionMode, r.lineNumber, r.column, 0, Null)

moveRight(c, inSelectionMode, noOfColumns) ==
    IF config.virtualSpace
    THEN moveRightWithVirtualSpace(c, inSelectionMode, noOfColumns)
    ELSE moveRightWithoutVirtualSpace(c, inSelectionMode, noOfColumns)

(***************************************************************************)
(* Vertical motion.                                                        *)
(***************************************************************************)
\* the visible column taken from the real column alone
currentVisibleColumnOfColumn(lineNumber, column, leftoverVisibleColumns, columnHint) ==
    visibleColumnFromColumn(getLineContent(lineNumber), column, config.tabSize)

\* the visible column a vertical move tracks: the hint when there is one,
\* else the visible column of the start plus its leftover
currentVisibleColumnOf(lineNumber, column, leftoverVisibleColumns, columnHint) ==
    IF columnHint # Null THEN columnHint
    ELSE visibleColumnFromColumn(getLineContent(lineNumber), column, config.tabSize)
         + leftoverVisibleColumns

\* vertical that never moves the column to the edge of the first/last line
verticalWithoutEdgeMove(lineNumber, column, leftoverVisibleColumns, columnHint, newLineNumber, allowMoveOnEdgeLine, normalizationAffinity) ==
    LET currentVisibleColumn ==
            currentVisibleColumnOf(lineNumber, column, leftoverVisibleColumns, columnHint)
        columnHint1 == currentVisibleColumn
        lineCount == getLineCount
        \* lineNumber = newLineNumber: from here on lineNumber is the target line
        lineNumber1 == newLineNumber
        wasOnFirstPosition == (lineNumber1 = 1 /\ column = 1)
        wasOnLastPosition ==
            (lineNumber1 = lineCount /\ column = getLineMaxColumn(lineNumber1))
        wasAtEdgePosition ==
            IF newLineNumber < lineNumber1 THEN wasOnFirstPosition ELSE wasOnLastPosition
        lineNumber2 ==
            IF config.virtualSpace THEN Max(1, Min(lineCount, lineNumber1))
            ELSE IF lineNumber1 < 1 THEN 1
            ELSE IF lineNumber1 > lineCount THEN lineCount
            ELSE lineNumber1
        column2 ==
            IF config.virtualSpace
            THEN columnFromVisibleColumn(lineNumber2, currentVisibleColumn)
            ELSE IF lineNumber1 < 1
            THEN IF FALSE THEN getLineMinColumn(lineNumber2)
                 ELSE Min(getLineMaxColumn(lineNumber2), column)
            ELSE IF lineNumber1 > lineCount
            THEN IF FALSE THEN getLineMaxColumn(lineNumber2)
                 ELSE Min(getLineMaxColumn(lineNumber2), column)
            ELSE columnFromVisibleColumn(lineNumber2, currentVisibleColumn)
        cleared == ~config.virtualSpace /\ wasAtEdgePosition
        columnHint2 == IF cleared THEN Null ELSE columnHint1
        leftover2 == IF cleared THEN 0 ELSE leftoverVisibleColumns
        newPosition ==
            IF normalizationAffinity # "undefined"
            THEN normalizePosition(Position(lineNumber2, column2), normalizationAffinity)
            ELSE Position(lineNumber2, column2)
        leftover3 ==
            IF columnHint2 # Null
            THEN currentVisibleColumn
                 - visibleColumnFromColumn(getLineContent(newPosition.lineNumber),
                                           newPosition.column, config.tabSize)
            ELSE leftover2
    IN  CursorPosition(newPosition.lineNumber, newPosition.column, leftover3, columnHint2)

\* vertical that returns the leftover it was given
verticalKeepingLeftover(lineNumber, column, leftoverVisibleColumns, columnHint, newLineNumber, allowMoveOnEdgeLine, normalizationAffinity) ==
    LET currentVisibleColumn ==
            currentVisibleColumnOf(lineNumber, column, leftoverVisibleColumns, columnHint)
        columnHint1 == currentVisibleColumn
        lineCount == getLineCount
        \* lineNumber = newLineNumber: from here on lineNumber is the target line
        lineNumber1 == newLineNumber
        wasOnFirstPosition == (lineNumber1 = 1 /\ column = 1)
        wasOnLastPosition ==
            (lineNumber1 = lineCount /\ column = getLineMaxColumn(lineNumber1))
        wasAtEdgePosition ==
            IF newLineNumber < lineNumber1 THEN wasOnFirstPosition ELSE wasOnLastPosition
        lineNumber2 ==
            IF config.virtualSpace THEN Max(1, Min(lineCount, lineNumber1))
            ELSE IF lineNumber1 < 1 THEN 1
            ELSE IF lineNumber1 > lineCount THEN lineCount
            ELSE lineNumber1
        column2 ==
            IF config.virtualSpace
            THEN columnFromVisibleColumn(lineNumber2, currentVisibleColumn)
            ELSE IF lineNumber1 < 1
            THEN IF allowMoveOnEdgeLine THEN getLineMinColumn(lineNumber2)
                 ELSE Min(getLineMaxColumn(lineNumber2), column)
            ELSE IF lineNumber1 > lineCount
            THEN IF allowMoveOnEdgeLine THEN getLineMaxColumn(lineNumber2)
                 ELSE Min(getLineMaxColumn(lineNumber2), column)
            ELSE columnFromVisibleColumn(lineNumber2, currentVisibleColumn)
        cleared == ~config.virtualSpace /\ wasAtEdgePosition
        columnHint2 == IF cleared THEN Null ELSE columnHint1
        leftover2 == IF cleared THEN 0 ELSE leftoverVisibleColumns
        newPosition ==
            IF normalizationAffinity # "undefined"
            THEN normalizePosition(Position(lineNumber2, column2), normalizationAffinity)
            ELSE Position(lineNumber2, column2)
        leftover3 == leftover2
    IN  CursorPosition(newPosition.lineNumber, newPosition.column, leftover3, columnHint2)

vertical(lineNumber, column, leftoverVisibleColumns, columnHint, newLineNumber, allowMoveOnEdgeLine, normalizationAffinity) ==
    LET currentVisibleColumn ==
            currentVisibleColumnOf(lineNumber, column, leftoverVisibleColumns, columnHint)
        columnHint1 == currentVisibleColumn
        lineCount == getLineCount
        \* lineNumber = newLineNumber: from here on lineNumber is the target line
        lineNumber1 == newLineNumber
        wasOnFirstPosition == (lineNumber1 = 1 /\ column = 1)
        wasOnLastPosition ==
            (lineNumber1 = lineCount /\ column = getLineMaxColumn(lineNumber1))
        wasAtEdgePosition ==
            IF newLineNumber < lineNumber1 THEN wasOnFirstPosition ELSE wasOnLastPosition
        lineNumber2 ==
            IF config.virtualSpace THEN Max(1, Min(lineCount, lineNumber1))
            ELSE IF lineNumber1 < 1 THEN 1
            ELSE IF lineNumber1 > lineCount THEN lineCount
            ELSE lineNumber1
        column2 ==
            IF config.virtualSpace
            THEN columnFromVisibleColumn(lineNumber2, currentVisibleColumn)
            ELSE IF lineNumber1 < 1
            THEN IF allowMoveOnEdgeLine THEN getLineMinColumn(lineNumber2)
                 ELSE Min(getLineMaxColumn(lineNumber2), column)
            ELSE IF lineNumber1 > lineCount
            THEN IF allowMoveOnEdgeLine THEN getLineMaxColumn(lineNumber2)
                 ELSE Min(getLineMaxColumn(lineNumber2), column)
            ELSE columnFromVisibleColumn(lineNumber2, currentVisibleColumn)
        cleared == ~config.virtualSpace /\ wasAtEdgePosition
        columnHint2 == IF cleared THEN Null ELSE columnHint1
        leftover2 == IF cleared THEN 0 ELSE leftoverVisibleColumns
        newPosition ==
            IF normalizationAffinity # "undefined"
            THEN normalizePosition(Position(lineNumber2, column2), normalizationAffinity)
            ELSE Position(lineNumber2, column2)
        leftover3 ==
            IF columnHint2 # Null
            THEN currentVisibleColumn
                 - visibleColumnFromColumn(getLineContent(newPosition.lineNumber),
                                           newPosition.column, config.tabSize)
            ELSE leftover2
    IN  CursorPosition(newPosition.lineNumber, newPosition.column, leftover3, columnHint2)

down(lineNumber, column, leftoverVisibleColumns, columnHint, count, allowMoveOnLastLine) ==
    vertical(lineNumber, column, leftoverVisibleColumns, columnHint, lineNumber + count,
             allowMoveOnLastLine, "RightOfInjectedText")

up(lineNumber, column, leftoverVisibleColumns, columnHint, count, allowMoveOnFirstLine) ==
    vertical(lineNumber, column, leftoverVisibleColumns, columnHint, lineNumber - count,
             allowMoveOnFirstLine, "LeftOfInjectedText")

\* the do-while of moveDown: the result of the last call of down and the
\* number of calls made
\* the do-while with one retry too many
RECURSIVE moveDownLoopOneMore(_, _, _, _, _, _)
moveDownLoopOneMore(lineNumber, column, leftoverVisibleColumns, columnHint, linesCount, i) ==
    LET r == down(lineNumber + i, column, leftoverVisibleColumns, columnHint, linesCount, TRUE)
        np == normalizePosition(Position(r.lineNumber, r.column), "None")
    IN  IF np.lineNumber > lineNumber THEN [r |-> r, calls |-> i + 1]
        ELSE IF i <= MaxRetries /\ lineNumber + (i + 1) < getLineCount
        THEN moveDownLoopOneMore(lineNumber, column, leftoverVisibleColumns, columnHint,
                                 linesCount, i + 1)
        ELSE [r |-> r, calls |-> i + 1]

RECURSIVE moveDownLoop(_, _, _, _, _, _)
moveDownLoop(lineNumber, column, leftoverVisibleColumns, columnHint, linesCount, i) ==
    LET r == down(lineNumber + i, column, leftoverVisibleColumns, columnHint, linesCount, TRUE)
        np == normalizePosition(Position(r.lineNumber, r.column), "None")
    IN  IF np.lineNumber > lineNumber THEN [r |-> r, calls |-> i + 1]
        ELSE IF i < MaxRetries /\ lineNumber + (i + 1) < getLineCount
        THEN moveDownLoop(lineNumber, column, leftoverVisibleColumns, columnHint,
                          linesCount, i + 1)
        ELSE [r |-> r, calls |-> i + 1]

\* the cursor position moveUp and moveDown start from
verticalStart(c, inSelectionMode, edge) ==
    IF hasSelection(c, config.virtualSpace) /\ ~inSelectionMode
    THEN CursorPosition(edge.lineNumber, edge.column, edge.leftoverVisibleColumns, Null)
    ELSE CursorPosition(c.position.lineNumber, c.position.column,
                        c.leftoverVisibleColumns, c.columnHint)

moveDownRun(c, inSelectionMode, linesCount) ==
    LET s == verticalStart(c, inSelectionMode, rightmostPosition(c))
    IN  moveDownLoop(s.lineNumber, s.column, s.leftoverVisibleColumns, s.columnHint,
                     linesCount, 0)

moveDown(c, inSelectionMode, linesCount) ==
    LET r == moveDownRun(c, inSelectionMode, linesCount).r
    IN  move(c, inSelectionMode, r.lineNumber, r.column, r.leftoverVisibleColumns,
             r.columnHint)

moveUp(c, inSelectionMode, linesCount) ==
    LET s == verticalStart(c, inSelectionMode, leftmostPosition(c))
        r == up(s.lineNumber, s.column, s.leftoverVisibleColumns, s.columnHint,
                linesCount, TRUE)
    IN  move(c, inSelectionMode, r.lineNumber, r.column, r.leftoverVisibleColumns,
             r.columnHint)

translateDown(c) ==
    LET selectionStart == down(c.selectionStart.lineNumber, c.selectionStart.column,
                               c.selectionStartLeftoverVisibleColumns, c.columnHint, 1, FALSE)
        position == down(c.position.lineNumber, c.position.column,
                         c.leftoverVisibleColumns, c.columnHint, 1, FALSE)
    IN  SingleCursorState(Position(selectionStart.lineNumber, selectionStart.column),
                          selectionStart.leftoverVisibleColumns,
                          Position(position.lineNumber, position.column),
                          position.leftoverVisibleColumns, c.columnHint)

translateUp(c) ==
    LET selectionStart == up(c.selectionStart.lineNumber, c.selectionStart.column,
                             c.selectionStartLeftoverVisibleColumns, c.columnHint, 1, FALSE)
        position == up(c.position.lineNumber, c.position.column,
                       c.leftoverVisibleColumns, c.columnHint, 1, FALSE)
    IN  SingleCursorState(Position(selectionStart.lineNumber, selectionStart.column),
                          selectionStart.leftoverVisibleColumns,
                          Position(position.lineNumber, position.column),
                          position.leftoverVisibleColumns, c.columnHint)

(***************************************************************************)
(* Line and buffer boundaries, blank lines.                                *)
(***************************************************************************)
isBlankLine(lineNumber) == getLineFirstNonWhitespaceColumn(lineNumber) = 0

RECURSIVE skipUp(_, _)
skipUp(lineNumber, blank) ==
    IF lineNumber > 1 /\ isBlankLine(lineNumber) = blank
    THEN skipUp(lineNumber - 1, blank) ELSE lineNumber

RECURSIVE skipDown(_, _)
skipDown(lineNumber, blank) ==
    IF lineNumber < getLineCount /\ isBlankLine(lineNumber) = blank
    THEN skipDown(lineNumber + 1, blank) ELSE lineNumber

moveToPrevBlankLine(c, inSelectionMode) ==
    LET lineNumber == skipUp(skipUp(c.position.lineNumber, TRUE), FALSE)
    IN  move(c, inSelectionMode, lineNumber, getLineMinColumn(lineNumber), 0, Null)

\* moveToNextBlankLine that does not leave the blank lines it starts in
moveToNextBlankLineOneRun(c, inSelectionMode) ==
    LET lineNumber == skipDown(c.position.lineNumber, FALSE)
    IN  move(c, inSelectionMode, lineNumber, getLineMinColumn(lineNumber), 0, Null)

moveToNextBlankLine(c, inSelectionMode) ==
    LET lineNumber == skipDown(skipDown(c.position.lineNumber, TRUE), FALSE)
    IN  move(c, inSelectionMode, lineNumber, getLineMinColumn(lineNumber), 0, Null)

\* moveToBeginningOfLine that always goes to the first non-blank column
moveToBeginningOfLineNoToggle(c, inSelectionMode) ==
    LET lineNumber == c.position.lineNumber
        minColumn == getLineMinColumn(lineNumber)
        firstNonBlankColumn ==
            IF getLineFirstNonWhitespaceColumn(lineNumber) # 0
            THEN getLineFirstNonWhitespaceColumn(lineNumber) ELSE minColumn
    IN  move(c, inSelectionMode, lineNumber, firstNonBlankColumn, 0, Null)

moveToBeginningOfLine(c, inSelectionMode) ==
    LET lineNumber == c.position.lineNumber
        minColumn == getLineMinColumn(lineNumber)
        firstNonBlankColumn ==
            IF getLineFirstNonWhitespaceColumn(lineNumber) # 0
            THEN getLineFirstNonWhitespaceColumn(lineNumber) ELSE minColumn
        column == IF c.position.column = firstNonBlankColumn THEN minColumn
                  ELSE firstNonBlankColumn
    IN  move(c, inSelectionMode, lineNumber, column, 0, Null)

\* moveToEndOfLine that is always sticky
moveToEndOfLineAlwaysSticky(c, inSelectionMode, sticky) ==
    LET lineNumber == c.position.lineNumber
        maxColumn == getLineMaxColumn(lineNumber)
    IN  move(c, inSelectionMode, lineNumber, maxColumn,
             MAX_SAFE_SMALL_INTEGER - maxColumn, Null)

moveToEndOfLine(c, inSelectionMode, sticky) ==
    LET lineNumber == c.position.lineNumber
        maxColumn == getLineMaxColumn(lineNumber)
    IN  move(c, inSelectionMode, lineNumber, maxColumn,
             IF sticky THEN MAX_SAFE_SMALL_INTEGER - maxColumn ELSE 0, Null)

moveToBeginningOfBuffer(c, inSelectionMode) ==
    move(c, inSelectionMode, 1, 1, 0, Null)

moveToEndOfBuffer(c, inSelectionMode) ==
    move(c, inSelectionMode, getLineCount, getLineMaxColumn(getLineCount), 0, Null)

(***************************************************************************)
(* The second copy of MoveOperations in the source: moveLeft, moveRight,  *)
(* moveDown and moveUp are written differently there (one function for    *)
(* both modes, hasSelection() without the leftovers); everything else is  *)
(* the same text.                                                          *)
(***************************************************************************)
moveLeft2(c, inSelectionMode, noOfColumns) ==
    IF hasSelection(c, FALSE) /\ ~inSelectionMode
    THEN LET p == selectionStartPosition(c)
             leftoverVisibleColumns ==
                 IF config.virtualSpace THEN c.selectionStartLeftoverVisibleColumns ELSE 0
         IN  SingleCursorState(p, leftoverVisibleColumns, p, leftoverVisibleColumns, Null)
    ELSE LET leftoverVisibleColumns ==
                 IF config.virtualSpace THEN c.leftoverVisibleColumns ELSE 0
             pos == Position(c.position.lineNumber,
                             c.position.column - (noOfColumns - 1) + leftoverVisibleColumns)
             normalizedPos == normalizePosition(clipPositionColumn(pos), "Left")
             newLeftoverVisibleColumns == (pos.column - normalizedPos.column) - 1
         IN  IF config.virtualSpace /\ newLeftoverVisibleColumns >= 0
             THEN SingleCursorState(normalizedPos, newLeftoverVisibleColumns,
                                    normalizedPos, newLeftoverVisibleColumns, Null)
             ELSE IF /\ config.virtualSpace
                     /\ normalizedPos.column <= getLineMinColumn(normalizedPos.lineNumber)
             THEN SingleCursorState(normalizedPos, 0, normalizedPos, 0, Null)
             ELSE LET p == left(normalizedPos)
                  IN  move(c, inSelectionMode, p.lineNumber, p.column, 0, Null)

moveRight2(c, inSelectionMode, noOfColumns) ==
    LET leftoverVisibleColumns ==
            IF config.virtualSpace THEN c.leftoverVisibleColumns ELSE 0
    IN  IF hasSelection(c, FALSE) /\ ~inSelectionMode
        THEN LET p == selectionEndPosition(c)
             IN  SingleCursorState(p, leftoverVisibleColumns, p, leftoverVisibleColumns, Null)
        ELSE LET pos == Position(c.position.lineNumber,
                                 c.position.column + (noOfColumns - 1)
                                     + leftoverVisibleColumns)
                 normalizedPos == normalizePosition(clipPositionColumn(pos), "Right")
                 newLeftoverVisibleColumns ==
                     Max(0, pos.column - normalizedPos.column) + 1
             IN  IF /\ config.virtualSpace
                    /\ normalizedPos.column >= getLineMaxColumn(normalizedPos.lineNumber)
                 THEN SingleCursorState(normalizedPos, newLeftoverVisibleColumns,
                                        normalizedPos, newLeftoverVisibleColumns, Null)
                 ELSE LET r == right(normalizedPos)
                      IN  move(c, inSelectionMode, r.lineNumber, r.column, 0, Null)

\* the position the second copy's moveUp and moveDown start from
verticalStart2(c, inSelectionMode, edge) ==
    IF hasSelection(c, FALSE) /\ ~inSelectionMode THEN edge ELSE c.position

moveDown2(c, inSelectionMode, linesCount) ==
    LET s == verticalStart2(c, inSelectionMode, selectionEndPosition(c))
        r == moveDownLoop(s.lineNumber, s.column, c.leftoverVisibleColumns, c.columnHint,
                          linesCount, 0).r
    IN  move(c, inSelectionMode, r.lineNumber, r.column, r.leftoverVisibleColumns,
             r.columnHint)

moveUp2(c, inSelectionMode, linesCount) ==
    LET s == verticalStart2(c, inSelectionMode, selectionStartPosition(c))
        r == up(s.lineNumber, s.column, c.leftoverVisibleColumns, c.columnHint,
                linesCount, TRUE)
    IN  move(c, inSelectionMode, r.lineNumber, r.column, r.leftoverVisibleColumns,
             r.columnHint)

(***************************************************************************)
(* The state machine: a buffer, a configuration and a cursor; every       *)
(* action applies one entry point to the cursor.  lastOp and before       *)
(* record the last call and the cursor it was given, vcalls the number of *)
(* calls of vertical made by the last moveDown, hintRun the visible       *)
(* column a run of plain vertical moves started from, and stickyRun       *)
(* whether only vertical moves followed a sticky moveToEndOfLine; steps   *)
(* counts the calls.                                                       *)
(***************************************************************************)
Long == <<"a", "a", "a", "a", "a">>
Short == <<"a", "a", "a">>
Indented == <<" ", " ", "a", "H", "L">>
Tabbed == <<"T", "a">>
One == <<"a">>
Empty == <<>>
Blank == <<" ">>
\* one space of indentation: less than a tab stop
OddIndent == <<" ", "a">>

Folded == [i \in 1..13 |-> IF i = 1 THEN One ELSE Empty]

\* a world: a buffer, its hidden lines, and the configurations tried on it
World(ls, hid, tabSize, sticky, virtualSpace) ==
    [lines |-> ls, hidden |-> hid,
     configs |-> [tabSize : {tabSize}, stickyTabStops : sticky, virtualSpace : virtualSpace]]

LongShort == World(<<Long, Short>>, {}, 4, {FALSE}, {TRUE})
Ragged == World(<<<<"a", "a">>, One, One>>, {}, 4, {FALSE}, {FALSE})
Mixed == World(<<Indented, Tabbed, OddIndent>>, {}, 2, BOOLEAN, {FALSE})
MixedVirtual == World(<<Indented, Tabbed, OddIndent>>, {}, 2, {TRUE}, {TRUE})
WideTab == World(<<Short, Tabbed>>, {}, 4, {FALSE}, BOOLEAN)
Paragraphs == World(<<One, Blank, One, One, Empty>>, {}, 4, {FALSE}, {FALSE})
OneHidden == World(<<Short, One, Short>>, {2}, 4, {FALSE}, BOOLEAN)
AllHidden == World(Folded, 2..13, 4, {FALSE}, {FALSE})

NoOp == [op |-> "none", inSelectionMode |-> FALSE, count |-> 0, sticky |-> FALSE]

Op(name, inSelectionMode, count, sticky) ==
    [op |-> name, inSelectionMode |-> inSelectionMode, count |-> count, sticky |-> sticky]

Collapsed(l, c) == SingleCursorState(Position(l, c), 0, Position(l, c), 0, Null)

InitIn(worlds) ==
    \E w \in worlds :
        /\ lines = w.lines
        /\ hidden = w.hidden
        /\ config \in w.configs
        /\ \E l \in 1..Len(w.lines) : \E c \in 1..(Len(w.lines[l]) + 1) :
              /\ l \notin w.hidden
              /\ IsBoundary(w.lines[l], c)
              /\ cursor = Collapsed(l, c)
        /\ lastOp = NoOp
        /\ before = cursor
        /\ vcalls = 0
        /\ hintRun = Null
        /\ stickyRun = FALSE
        /\ steps = 0

\* the counts tried: a single column or line, and the largest count
Counts == {1, MaxCount}

atBufferStart(c) == c.position = Position(1, 1)

atBufferEnd(c) == c.position = Position(getLineCount, getLineMaxColumn(getLineCount))

\* a vertical move without virtual space, without selection, and not from
\* the edge of the buffer it moves towards
PlainVertical(c, inSelectionMode, atEdge) ==
    /\ ~config.virtualSpace
    /\ ~inSelectionMode
    /\ ~hasSelection(c, FALSE)
    /\ ~atEdge

startVisibleColumn(c) ==
    visibleColumnFromColumn(getLineContent(c.position.lineNumber), c.position.column,
                            config.tabSize)

nextHintRun(c, inSelectionMode, atEdge) ==
    IF ~PlainVertical(c, inSelectionMode, atEdge) THEN Null
    ELSE IF hintRun # Null THEN hintRun
    ELSE IF c.columnHint = Null /\ c.leftoverVisibleColumns = 0 THEN startVisibleColumn(c)
    ELSE Null

\* pastEdge: the move is a moveUp that asks for a line above the first one,
\* or a moveDown issued at the end of the buffer
nextStickyRun(c, inSelectionMode, pastEdge) ==
    /\ stickyRun
    /\ ~config.virtualSpace
    /\ ~inSelectionMode
    /\ ~hasSelection(c, FALSE)
    /\ ~pastEdge

\* one more call; the buffer and the configuration stay as they are
Step ==
    /\ steps < MaxSteps
    /\ steps' = steps + 1
    /\ UNCHANGED <<lines, hidden, config>>

Horizontal(name, next, inSelectionMode, count) ==
    /\ Step
    /\ cursor' = next
    /\ lastOp' = Op(name, inSelectionMode, count, FALSE)
    /\ before' = cursor
    /\ vcalls' = 0
    /\ hintRun' = Null
    /\ stickyRun' = FALSE

MoveLeft ==
    \E inSelectionMode \in BOOLEAN, noOfColumns \in Counts :
        Horizontal("moveLeft", moveLeft(cursor, inSelectionMode, noOfColumns),
                   inSelectionMode, noOfColumns)

\* the virtual space right of a line has no end: the leftover is capped
MoveRight ==
    \E inSelectionMode \in BOOLEAN, noOfColumns \in Counts :
        /\ steps < MaxSteps
        /\ config.virtualSpace =>
              moveRight(cursor, inSelectionMode, noOfColumns).leftoverVisibleColumns
                  <= Max(MaxLeftover, cursor.leftoverVisibleColumns)
        /\ Horizontal("moveRight", moveRight(cursor, inSelectionMode, noOfColumns),
                      inSelectionMode, noOfColumns)

MoveDown ==
    \E inSelectionMode \in BOOLEAN, linesCount \in Counts :
        /\ Step
        /\ cursor' = moveDown(cursor, inSelectionMode, linesCount)
        /\ lastOp' = Op("moveDown", inSelectionMode, linesCount, FALSE)
        /\ before' = cursor
        /\ vcalls' = moveDownRun(cursor, inSelectionMode, linesCount).calls
        /\ hintRun' = nextHintRun(cursor, inSelectionMode, atBufferEnd(cursor))
        /\ stickyRun' = nextStickyRun(cursor, inSelectionMode, atBufferEnd(cursor))

MoveUp ==
    \E inSelectionMode \in BOOLEAN, linesCount \in Counts :
        /\ Step
        /\ cursor' = moveUp(cursor, inSelectionMode, linesCount)
        /\ lastOp' = Op("moveUp", inSelectionMode, linesCount, FALSE)
        /\ before' = cursor
        /\ vcalls' = 0
        /\ hintRun' = nextHintRun(cursor, inSelectionMode, atBufferStart(cursor))
        /\ stickyRun' = nextStickyRun(cursor, inSelectionMode,
                                      cursor.position.lineNumber - linesCount < 1)

TranslateDown == Horizontal("translateDown", translateDown(cursor), FALSE, 1)

TranslateUp == Horizontal("translateUp", translateUp(cursor), FALSE, 1)

MoveToPrevBlankLine ==
    \E inSelectionMode \in BOOLEAN :
        Horizontal("moveToPrevBlankLine", moveToPrevBlankLine(cursor, inSelectionMode),
                   inSelectionMode, 0)

MoveToNextBlankLine ==
    \E inSelectionMode \in BOOLEAN :
        Horizontal("moveToNextBlankLine", moveToNextBlankLine(cursor, inSelectionMode),
                   inSelectionMode, 0)

MoveToBeginningOfLine ==
    \E inSelectionMode \in BOOLEAN :
        Horizontal("moveToBeginningOfLine", moveToBeginningOfLine(cursor, inSelectionMode),
                   inSelectionMode, 0)

MoveToEndOfLine ==
    \E inSelectionMode \in BOOLEAN, sticky \in BOOLEAN :
        /\ Step
        /\ cursor' = moveToEndOfLine(cursor, inSelectionMode, sticky)
        /\ lastOp' = Op("moveToEndOfLine", inSelectionMode, 0, sticky)
        /\ before' = cursor
        /\ vcalls' = 0
        /\ hintRun' = Null
        /\ stickyRun' = (sticky /\ ~inSelectionMode /\ ~config.virtualSpace)

MoveToBeginningOfBuffer ==
    \E inSelectionMode \in BOOLEAN :
        Horizontal("moveToBeginningOfBuffer", moveToBeginningOfBuffer(cursor, inSelectionMode),
                   inSelectionMode, 0)

MoveToEndOfBuffer ==
    \E inSelectionMode \in BOOLEAN :
        Horizontal("moveToEndOfBuffer", moveToEndOfBuffer(cursor, inSelectionMode),
                   inSelectionMode, 0)

Next ==
    \/ MoveLeft
    \/ MoveRight
    \/ MoveDown
    \/ MoveUp
    \/ TranslateDown
    \/ TranslateUp
    \/ MoveToPrevBlankLine
    \/ MoveToNextBlankLine
    \/ MoveToBeginningOfLine
    \/ MoveToEndOfLine
    \/ MoveToBeginningOfBuffer
    \/ MoveToEndOfBuffer

Init == InitIn({LongShort, Ragged, Mixed, MixedVirtual, WideTab, Paragraphs, OneHidden, AllHidden})

Spec == Init /\ [][Next]_vars

(***************************************************************************)
(* Shorthands of the properties.                                           *)
(***************************************************************************)
Called(name) == lastOp.op = name

\* the last call was a plain one-unit step: no selection before it, no
\* selection asked for, columnCount = 1
OneStep(name) ==
    /\ Called(name)
    /\ ~lastOp.inSelectionMode
    /\ lastOp.count = 1
    /\ ~hasSelection(before, FALSE)

OnBoundary(c) == IsBoundary(getLineContent(c.position.lineNumber), c.position.column)

\* the column lies inside the line's indentation
InIndent(c) == c.position.column < getLineIndentColumn(c.position.lineNumber)

(***************************************************************************)
(* C1 (as stated): with virtual space off, no selection, extendSelection  *)
(* = false and columnCount = 1, moveRight followed by moveLeft returns to *)
(* the original (line, column) for every line, column and configuration;  *)
(* at the buffer end moveRight leaves the position unchanged, and at      *)
(* (1,1) moveLeft leaves it unchanged.  (Stated for a model that          *)
(* normalizes every position to itself.)                                   *)
(***************************************************************************)
C1_RoundTripAnyConfig ==
    /\ (~config.virtualSpace /\ OneStep("moveRight") /\ hidden = {}) =>
          IF atBufferEnd(before) THEN cursor.position = before.position
          ELSE moveLeft(cursor, FALSE, 1).position = before.position
    /\ (~config.virtualSpace /\ OneStep("moveLeft") /\ atBufferStart(before)) =>
          cursor.position = before.position

(***************************************************************************)
(* C1 (amended): the same round trip, for a cursor on a character         *)
(* boundary, when the model's normalization is the identity and either    *)
(* stickyTabStops is off or the column is not inside the line's           *)
(* indentation.                                                            *)
(***************************************************************************)
C1_RoundTrip ==
    /\ (/\ ~config.virtualSpace
        /\ OneStep("moveRight")
        /\ hidden = {}
        /\ OnBoundary(before)
        /\ (~config.stickyTabStops \/ ~InIndent(before))) =>
          IF atBufferEnd(before) THEN cursor.position = before.position
          ELSE /\ cursor.position # before.position
               /\ moveLeft(cursor, FALSE, 1).position = before.position
    /\ (~config.virtualSpace /\ OneStep("moveLeft") /\ atBufferStart(before)) =>
          cursor.position = before.position

\* a round trip across a line end, with sticky tab stops on
C1_Witness ==
    /\ ~config.virtualSpace
    /\ config.stickyTabStops
    /\ OneStep("moveRight")
    /\ hidden = {}
    /\ OnBoundary(before)
    /\ ~InIndent(before)
    /\ cursor.position.lineNumber = before.position.lineNumber + 1
    /\ moveLeft(cursor, FALSE, 1).position = before.position

(***************************************************************************)
(* C2: with virtual space on, a cursor without selection and with a null  *)
(* column hint that moves down one line onto a shorter line and up one    *)
(* line again is back on its original line and column; the hint set by    *)
(* the move down is carried in the cursor state and reused.                *)
(***************************************************************************)
OntoShorterLine ==
    /\ cursor.position.lineNumber = before.position.lineNumber + 1
    /\ getLineMaxColumn(cursor.position.lineNumber) < before.position.column

C2_DownUpRestoresColumn ==
    (/\ config.virtualSpace
     /\ OneStep("moveDown")
     /\ ~hasSelection(before, TRUE)
     /\ before.columnHint = Null
     /\ OntoShorterLine) =>
        /\ cursor.columnHint = startVisibleColumn(before) + before.leftoverVisibleColumns
        /\ moveUp(cursor, FALSE, 1).position = before.position
        /\ moveUp(cursor, FALSE, 1).columnHint = cursor.columnHint

\* visible column 5 of the long line, down to the line of 3 columns
C2_Witness ==
    /\ config.virtualSpace
    /\ OneStep("moveDown")
    /\ before.columnHint = Null
    /\ before.position = Position(1, 6)
    /\ cursor.position = Position(2, 4)
    /\ cursor.columnHint = 5
    /\ moveUp(cursor, FALSE, 1).position = Position(1, 6)

(***************************************************************************)
(* C3: with virtual space off, in a run of moveUp/moveDown calls (no      *)
(* selection, extendSelection = false) none of which is issued from the   *)
(* buffer start moving up or from the buffer end moving down, every       *)
(* returned cursor carries the same non-null column hint: the visible     *)
(* column of the position the run started from.  (Stated for a model that *)
(* normalizes every position to itself.)                                   *)
(***************************************************************************)
C3_HintSurvives == (hidden = {} /\ hintRun # Null) => cursor.columnHint = hintRun

(***************************************************************************)
(* C4: with virtual space off, a cursor with a non-empty selection and    *)
(* extendSelection = false is collapsed by moveLeft at the start of the   *)
(* selection and by moveRight at its end, whichever end is active and     *)
(* whatever columnCount is, with leftover 0 and a null column hint.        *)
(***************************************************************************)
Collapsing(name) ==
    /\ ~config.virtualSpace
    /\ Called(name)
    /\ ~lastOp.inSelectionMode
    /\ hasSelection(before, FALSE)

SelectionLow(c) ==
    IF isBefore(c.selectionStart, c.position) THEN c.selectionStart ELSE c.position

SelectionHigh(c) ==
    IF isBefore(c.selectionStart, c.position) THEN c.position ELSE c.selectionStart

C4_CollapseToSelectionEdge ==
    /\ Collapsing("moveLeft") =>
          cursor = Collapsed(SelectionLow(before).lineNumber, SelectionLow(before).column)
    /\ Collapsing("moveRight") =>
          cursor = Collapsed(SelectionHigh(before).lineNumber, SelectionHigh(before).column)

\* the active end is the start of the selection, columnCount is 2
C4_Witness ==
    /\ Collapsing("moveLeft")
    /\ lastOp.count = 2
    /\ isBefore(before.position, before.selectionStart)
    /\ before.position.lineNumber = before.selectionStart.lineNumber
    /\ cursor.position = before.position

(***************************************************************************)
(* C5: moveLeft and moveRight by one unit (columnCount = 1, no selection) *)
(* from a character boundary never return a column that splits a          *)
(* multi-unit character; a step that stays inside the line changes the    *)
(* column by the length of the character next to the cursor, so that a    *)
(* surrogate pair is stepped over as two code units.                       *)
(***************************************************************************)
UnitStep(name) ==
    /\ Called(name)
    /\ lastOp.count = 1
    /\ ~hasSelection(before, config.virtualSpace)
    /\ OnBoundary(before)

\* the plain step inside the line: no soft tab, no virtual space involved
PlainStep(name) ==
    /\ UnitStep(name)
    /\ hidden = {}
    /\ ~config.stickyTabStops
    /\ before.leftoverVisibleColumns = 0

UnitsLeftOf(c) ==
    IF c.position.column >= 3
       /\ getLineContent(c.position.lineNumber)[c.position.column - 2] = "H"
       /\ getLineContent(c.position.lineNumber)[c.position.column - 1] = "L"
    THEN 2 ELSE 1

UnitsRightOf(c) ==
    IF c.position.column + 1 <= Len(getLineContent(c.position.lineNumber))
       /\ getLineContent(c.position.lineNumber)[c.position.column] = "H"
       /\ getLineContent(c.position.lineNumber)[c.position.column + 1] = "L"
    THEN 2 ELSE 1

C5_NeverSplitsCharacter ==
    /\ (UnitStep("moveLeft") \/ UnitStep("moveRight")) => OnBoundary(cursor)
    /\ (PlainStep("moveLeft") /\ before.position.column > 1) =>
          cursor.position = Position(before.position.lineNumber,
                                     before.position.column - UnitsLeftOf(before))
    /\ (/\ PlainStep("moveRight")
        /\ before.position.column < getLineMaxColumn(before.position.lineNumber)) =>
          cursor.position = Position(before.position.lineNumber,
                                     before.position.column + UnitsRightOf(before))

\* a step to the left over a surrogate pair
C5_Witness ==
    /\ PlainStep("moveLeft")
    /\ UnitsLeftOf(before) = 2
    /\ cursor.position.column = before.position.column - 2
    /\ OnBoundary(cursor)

(***************************************************************************)
(* C6: in every cursor state reached from a cursor with both leftovers 0  *)
(* by motion operations, leftoverVisibleColumns and                       *)
(* selectionStartLeftoverVisibleColumns are >= 0.                          *)
(***************************************************************************)
C6_LeftoversNonNegative ==
    /\ cursor.leftoverVisibleColumns >= 0
    /\ cursor.selectionStartLeftoverVisibleColumns >= 0

(***************************************************************************)
(* C7 (as stated): with virtual space off, every cursor state returned by *)
(* a motion operation has both leftovers 0.                                *)
(***************************************************************************)
C7_NoLeftoverWithoutVirtualSpace ==
    (~config.virtualSpace /\ ~Called("none")) =>
        /\ cursor.leftoverVisibleColumns = 0
        /\ cursor.selectionStartLeftoverVisibleColumns = 0

(***************************************************************************)
(* C7 (amended): with virtual space off, moveLeft, moveRight,             *)
(* moveToBeginningOfLine, moveToEndOfLine with sticky = false, the buffer *)
(* moves and the blank-line moves return leftoverVisibleColumns = 0, and  *)
(* selectionStartLeftoverVisibleColumns = 0 too unless the selection is   *)
(* extended (then it is the input cursor's); moveToEndOfLine with sticky  *)
(* = true returns the sentinel MAX_SAFE_SMALL_INTEGER - max column, and   *)
(* moveUp/moveDown onto a shorter line inside the buffer return the part  *)
(* of the tracked visible column the line is too short for.                *)
(***************************************************************************)
ZeroLeftoverOps ==
    {"moveLeft", "moveRight", "moveToBeginningOfLine", "moveToEndOfLine",
     "moveToBeginningOfBuffer", "moveToEndOfBuffer",
     "moveToPrevBlankLine", "moveToNextBlankLine"}

CursorVisibleColumn(c) ==
    visibleColumnFromColumn(getLineContent(c.position.lineNumber), c.position.column,
                            config.tabSize)

C7_LeftoverWithoutVirtualSpace ==
    /\ (~config.virtualSpace /\ lastOp.op \in ZeroLeftoverOps /\ ~lastOp.sticky) =>
          /\ cursor.leftoverVisibleColumns = 0
          /\ cursor.selectionStartLeftoverVisibleColumns =
                IF lastOp.inSelectionMode THEN before.selectionStartLeftoverVisibleColumns
                ELSE 0
    /\ (~config.virtualSpace /\ Called("moveToEndOfLine") /\ lastOp.sticky) =>
          /\ cursor.position.column = getLineMaxColumn(cursor.position.lineNumber)
          /\ cursor.leftoverVisibleColumns =
                MAX_SAFE_SMALL_INTEGER - cursor.position.column
    /\ (/\ ~config.virtualSpace
        /\ (Called("moveUp") \/ Called("moveDown"))
        /\ cursor.columnHint # Null) =>
          cursor.leftoverVisibleColumns = cursor.columnHint - CursorVisibleColumn(cursor)

\* virtual space off: a sticky end of line with its sentinel
C7_Witness ==
    /\ ~config.virtualSpace
    /\ Called("moveToEndOfLine")
    /\ lastOp.sticky
    /\ cursor.leftoverVisibleColumns = MAX_SAFE_SMALL_INTEGER - 4
    /\ cursor.position.column = 4

(***************************************************************************)
(* C8: with virtual space off, after moveToEndOfLine with sticky = true,  *)
(* any sequence of moveUp/moveDown calls (no selection, nothing else in   *)
(* between) leaves the cursor at the max column of the line it lands on.  *)
(* (A moveUp that asks for a line above the first one, which goes to the  *)
(* start of the first line, and a moveDown issued at the end of the       *)
(* buffer are taken to end the sequence.)                                  *)
(***************************************************************************)
C8_StickyEndOfLine ==
    stickyRun => cursor.position.column = getLineMaxColumn(cursor.position.lineNumber)

(***************************************************************************)
(* C9: moveDown calls the vertical primitive at most 11 times (the first  *)
(* attempt and at most 10 retries, each starting one line further down);  *)
(* it retries only while the normalized result is not past the starting   *)
(* line and the next start line is before the last line.                   *)
(***************************************************************************)
DownStart == verticalStart(before, lastOp.inSelectionMode, rightmostPosition(before))

\* the normalized line of the attempt that starts i lines further down
AttemptLine(i) ==
    LET r == vertical(DownStart.lineNumber + i, DownStart.column,
                      DownStart.leftoverVisibleColumns, DownStart.columnHint,
                      DownStart.lineNumber + i + lastOp.count, TRUE, "RightOfInjectedText")
    IN  normalizePosition(Position(r.lineNumber, r.column), "None").lineNumber

C9_BoundedRetry ==
    Called("moveDown") =>
        /\ vcalls >= 1
        /\ vcalls <= 11
        /\ \A i \in 0..(vcalls - 2) :
              /\ AttemptLine(i) <= DownStart.lineNumber
              /\ DownStart.lineNumber + i + 1 < getLineCount
        /\ \/ AttemptLine(vcalls - 1) > DownStart.lineNumber
           \/ vcalls = 11
           \/ DownStart.lineNumber + vcalls >= getLineCount

\* every candidate normalizes back to the starting line: 11 calls, then stop
C9_Witness ==
    /\ Called("moveDown")
    /\ vcalls = 11
    /\ \A i \in 0..10 : AttemptLine(i) = DownStart.lineNumber
    /\ DownStart.lineNumber + 11 < getLineCount

(***************************************************************************)
(* C10: every motion operation returns a position whose line is in        *)
(* [1, lineCount] and whose column is >= the line's min column; with      *)
(* virtual space off the column is also <= the line's max column.          *)
(***************************************************************************)
InBuffer(p) ==
    /\ p.lineNumber >= 1
    /\ p.lineNumber <= getLineCount
    /\ p.column >= getLineMinColumn(p.lineNumber)

InLine(p) == p.column <= getLineMaxColumn(p.lineNumber)

C10_ValidPosition ==
    ~Called("none") =>
        /\ InBuffer(cursor.position)
        /\ InBuffer(cursor.selectionStart)
        /\ ~config.virtualSpace => (InLine(cursor.position) /\ InLine(cursor.selectionStart))

\* a candidate column past the line end was clamped
C10_Witness ==
    /\ ~config.virtualSpace
    /\ Called("moveRight")
    /\ lastOp.count = 2
    /\ ~hasSelection(before, FALSE)
    /\ before.position.column = getLineMaxColumn(before.position.lineNumber)
    /\ atBufferEnd(before)
    /\ cursor.position = before.position

(***************************************************************************)
(* C11: translateDown (translateUp) moves the selection-start end and the *)
(* active-position end of the cursor one line down (up), each keeping its *)
(* own column where the target line has that column, so that the          *)
(* selection keeps its shape; the returned state carries the column hint  *)
(* of the input cursor.  (Stated for ends that sit on real columns, away  *)
(* from the first/last line, in a model that normalizes every position to *)
(* itself.)                                                                *)
(***************************************************************************)
VisibleColumnAt(p) ==
    visibleColumnFromColumn(getLineContent(p.lineNumber), p.column, config.tabSize)

\* the line has a column at the visible column of position p
HasColumnOf(lineNumber, p) ==
    \E c \in getLineMinColumn(lineNumber)..getLineMaxColumn(lineNumber) :
        VisibleColumnAt(Position(lineNumber, c)) = VisibleColumnAt(p)

\* position q is position p moved by delta lines, on p's own column
ShiftedBy(p, q, delta) ==
    /\ q.lineNumber = p.lineNumber + delta
    /\ HasColumnOf(p.lineNumber + delta, p) => VisibleColumnAt(q) = VisibleColumnAt(p)

\* both ends of the cursor can move by delta lines and sit on real columns
Translatable(c, delta) ==
    /\ hidden = {}
    /\ c.leftoverVisibleColumns = 0
    /\ c.selectionStartLeftoverVisibleColumns = 0
    /\ c.position.lineNumber + delta \in 1..getLineCount
    /\ c.selectionStart.lineNumber + delta \in 1..getLineCount

Translated(name, delta) ==
    (Called(name) /\ Translatable(before, delta)) =>
        /\ ShiftedBy(before.selectionStart, cursor.selectionStart, delta)
        /\ ShiftedBy(before.position, cursor.position, delta)
        /\ cursor.columnHint = before.columnHint

C11_TranslateKeepsShape ==
    /\ Translated("translateDown", 1)
    /\ Translated("translateUp", -1)

\* the same, for a cursor that carries no column hint
C11_TranslateWithoutHint ==
    before.columnHint = Null => C11_TranslateKeepsShape

(***************************************************************************)
(* C12: with virtual space off, a vertical move that starts at the buffer *)
(* start (1,1) moving up, or at the buffer end (last line, its max        *)
(* column) moving down, returns columnHint = null and                     *)
(* leftoverVisibleColumns = 0.                                             *)
(***************************************************************************)
\* the position the last moveUp / moveDown started from
UpStart == verticalStart(before, lastOp.inSelectionMode, leftmostPosition(before))

StartedAtEdge ==
    \/ /\ Called("moveUp")
       /\ UpStart.lineNumber = 1
       /\ UpStart.column = 1
    \/ /\ Called("moveDown")
       /\ verticalStart(before, lastOp.inSelectionMode,
                        rightmostPosition(before)).lineNumber = getLineCount
       /\ verticalStart(before, lastOp.inSelectionMode,
                        rightmostPosition(before)).column = getLineMaxColumn(getLineCount)

C12_EdgeClearsHint ==
    (~config.virtualSpace /\ StartedAtEdge) =>
        /\ cursor.columnHint = Null
        /\ cursor.leftoverVisibleColumns = 0

(***************************************************************************)
(* C13: moveToBeginningOfLine returns the line's first non-whitespace     *)
(* column when the cursor's column differs from it, and the line's min    *)
(* column when the cursor is already there; on a blank line it returns    *)
(* the min column; the line number is unchanged and the result has        *)
(* leftover 0 and a null column hint.                                      *)
(***************************************************************************)
FirstNonWhitespaceOf(c) == getLineFirstNonWhitespaceColumn(c.position.lineNumber)

BeginningOfLineColumn(c) ==
    IF FirstNonWhitespaceOf(c) = 0 THEN getLineMinColumn(c.position.lineNumber)
    ELSE IF c.position.column = FirstNonWhitespaceOf(c)
    THEN getLineMinColumn(c.position.lineNumber)
    ELSE FirstNonWhitespaceOf(c)

C13_BeginningOfLineToggles ==
    Called("moveToBeginningOfLine") =>
        /\ cursor.position = Position(before.position.lineNumber, BeginningOfLineColumn(before))
        /\ cursor.leftoverVisibleColumns = 0
        /\ cursor.columnHint = Null

\* line "  a..": from column 6 to column 3, and from there to column 1
C13_Witness ==
    /\ Called("moveToBeginningOfLine")
    /\ getLineContent(before.position.lineNumber) = Indented
    /\ before.position.column = 6
    /\ cursor.position.column = 3
    /\ moveToBeginningOfLine(cursor, FALSE).position.column = 1

(***************************************************************************)
(* C14: moveToNextBlankLine (moveToPrevBlankLine) from line L skips the   *)
(* run of blank lines containing L, then the following run of non-blank   *)
(* lines, and lands on the first blank line after (before) that run, or   *)
(* on the last line (line 1) if there is none; the column is that line's  *)
(* min column, with leftover 0 and a null column hint.                     *)
(***************************************************************************)
AllBlank(S) == \A k \in S : isBlankLine(k)

NoneBlank(S) == \A k \in S : ~isBlankLine(k)

\* r is the line reached from line l going down: blank lines l..m-1, then
\* non-blank lines m..r-1
NextBlankFrom(l, r) ==
    /\ r >= l
    /\ r = getLineCount \/ isBlankLine(r)
    /\ \E m \in l..r :
          /\ AllBlank(l..(m - 1))
          /\ m = getLineCount \/ ~isBlankLine(m)
          /\ NoneBlank(m..(r - 1))

\* r is the line reached from line l going up
PrevBlankFrom(l, r) ==
    /\ r <= l
    /\ r = 1 \/ isBlankLine(r)
    /\ \E m \in r..l :
          /\ AllBlank((m + 1)..l)
          /\ m = 1 \/ ~isBlankLine(m)
          /\ NoneBlank((r + 1)..m)

AtLineStart(c) ==
    /\ c.position.column = getLineMinColumn(c.position.lineNumber)
    /\ c.leftoverVisibleColumns = 0
    /\ c.columnHint = Null

C14_BlankLineMoves ==
    /\ Called("moveToNextBlankLine") =>
          /\ NextBlankFrom(before.position.lineNumber, cursor.position.lineNumber)
          /\ AtLineStart(cursor)
    /\ Called("moveToPrevBlankLine") =>
          /\ PrevBlankFrom(before.position.lineNumber, cursor.position.lineNumber)
          /\ AtLineStart(cursor)

\* five lines, the second and the fifth blank: from line 3 to line 5, and
\* to line 2 going up
C14_Witness ==
    /\ Called("moveToNextBlankLine")
    /\ lines = Paragraphs.lines
    /\ before.position.lineNumber = 3
    /\ cursor.position.lineNumber = 5
    /\ moveToPrevBlankLine(before, FALSE).position.lineNumber = 2

(***************************************************************************)
(* C15: with virtual space on and no selection to collapse, moveLeft      *)
(* starts from the virtual column (column + leftover - (columnCount - 1)). *)
(* If, after clipping and normalizing, the column before the clip exceeds *)
(* the normalized column by more than one, the cursor keeps the           *)
(* normalized position and the new leftover is the excess minus one; a    *)
(* real step left is taken only when no overshoot remains; at the line's  *)
(* min column with no overshoot the cursor stays there with leftover 0.   *)
(* Both copies of moveLeft are held to it.                                 *)
(***************************************************************************)
\* the call does not collapse a selection
KeepsSelectionOrNone(c, inSelectionMode) == inSelectionMode \/ ~hasSelection(c, TRUE)

LeftStart(c, noOfColumns) ==
    Position(c.position.lineNumber,
             c.position.column + c.leftoverVisibleColumns - (noOfColumns - 1))

LeftNormalized(c, noOfColumns) ==
    normalizePosition(
        Position(c.position.lineNumber,
                 Max(getLineMinColumn(c.position.lineNumber),
                     Min(getLineMaxColumn(c.position.lineNumber),
                         LeftStart(c, noOfColumns).column))),
        "Left")

LeftExcess(c, noOfColumns) ==
    LeftStart(c, noOfColumns).column - LeftNormalized(c, noOfColumns).column

\* r is what C15 asks of moveLeft(c, .., noOfColumns)
LeftInVirtualSpace(c, noOfColumns, r) ==
    /\ LeftExcess(c, noOfColumns) > 1 =>
          /\ r.position = LeftNormalized(c, noOfColumns)
          /\ r.leftoverVisibleColumns = LeftExcess(c, noOfColumns) - 1
    /\ r.position # LeftNormalized(c, noOfColumns) =>
          /\ LeftExcess(c, noOfColumns) <= 0
          /\ r.position = left(LeftNormalized(c, noOfColumns))
          /\ r.leftoverVisibleColumns = 0
    /\ (/\ LeftExcess(c, noOfColumns) <= 0
        /\ LeftNormalized(c, noOfColumns).column
               = getLineMinColumn(LeftNormalized(c, noOfColumns).lineNumber)) =>
          /\ r.position = LeftNormalized(c, noOfColumns)
          /\ r.leftoverVisibleColumns = 0

RightStart(c, noOfColumns) ==
    Position(c.position.lineNumber,
             c.position.column + c.leftoverVisibleColumns + (noOfColumns - 1))

RightClipped(c, noOfColumns) ==
    Position(c.position.lineNumber,
             Max(getLineMinColumn(c.position.lineNumber),
                 Min(getLineMaxColumn(c.position.lineNumber),
                     RightStart(c, noOfColumns).column)))

RightNormalized(c, noOfColumns) == normalizePosition(RightClipped(c, noOfColumns), "Right")

AtLineEnd(p) == p.column >= getLineMaxColumn(p.lineNumber)

\* r is what C16 asks of moveRight(c, .., noOfColumns)
RightInVirtualSpace(c, noOfColumns, r) ==
    /\ AtLineEnd(RightNormalized(c, noOfColumns)) =>
          /\ r.position = RightNormalized(c, noOfColumns)
          /\ r.leftoverVisibleColumns =
                 Max(1, RightStart(c, noOfColumns).column
                            - RightClipped(c, noOfColumns).column + 1)
    /\ ~AtLineEnd(RightNormalized(c, noOfColumns)) =>
          /\ r.position = right(RightNormalized(c, noOfColumns))
          /\ r.position.column > RightNormalized(c, noOfColumns).column
          /\ r.leftoverVisibleColumns = 0
    /\ r.position.lineNumber <= c.position.lineNumber

C16_RightInVirtualSpace ==
    (/\ config.virtualSpace
     /\ Called("moveRight")
     /\ KeepsSelectionOrNone(before, lastOp.inSelectionMode)) =>
        /\ RightInVirtualSpace(before, lastOp.count, cursor)
        /\ RightInVirtualSpace(before, lastOp.count,
                               moveRight2(before, lastOp.inSelectionMode, lastOp.count))

\* at the end of a line that has a next line: the cursor stays, leftover 1
C16_Witness ==
    /\ config.virtualSpace
    /\ OneStep("moveRight")
    /\ before.leftoverVisibleColumns = 0
    /\ before.position.column = getLineMaxColumn(before.position.lineNumber)
    /\ before.position.lineNumber < getLineCount
    /\ cursor.position = before.position
    /\ cursor.leftoverVisibleColumns = 1
    /\ moveRight2(before, FALSE, 1) = cursor

(***************************************************************************)
(* C17: with virtual space off, when the target line of a vertical move   *)
(* falls outside [1, lineCount] the line is clamped to 1 or lineCount and *)
(* the column is the line's min column (moving up) or max column (moving  *)
(* down) when allowEdgeMove is true (moveUp, moveDown), and min(old       *)
(* column, the line's max column) when it is false (translateUp,          *)
(* translateDown); when the target line is in the range the column is     *)
(* columnFromVisibleColumn of the tracked visible column on that line.    *)
(* (Stated for a model that normalizes every position to itself.)          *)
(***************************************************************************)
\* the visible column a move from s tracks
TrackedVisibleColumn(s) ==
    IF s.columnHint # Null THEN s.columnHint
    ELSE VisibleColumnAt(Position(s.lineNumber, s.column)) + s.leftoverVisibleColumns

ClampedTarget(s, target, allowEdgeMove) ==
    IF target < 1
    THEN Position(1, IF allowEdgeMove THEN getLineMinColumn(1)
                     ELSE Min(s.column, getLineMaxColumn(1)))
    ELSE IF target > getLineCount
    THEN Position(getLineCount,
                  IF allowEdgeMove THEN getLineMaxColumn(getLineCount)
                  ELSE Min(s.column, getLineMaxColumn(getLineCount)))
    ELSE Position(target, columnFromVisibleColumn(target, TrackedVisibleColumn(s)))

\* the two ends of a cursor as translateUp / translateDown pass them on
TranslatedStart(c) ==
    CursorPosition(c.selectionStart.lineNumber, c.selectionStart.column,
                   c.selectionStartLeftoverVisibleColumns, c.columnHint)

TranslatedActive(c) ==
    CursorPosition(c.position.lineNumber, c.position.column,
                   c.leftoverVisibleColumns, c.columnHint)

TranslateClamps(name, delta) ==
    Called(name) =>
        /\ cursor.selectionStart =
               ClampedTarget(TranslatedStart(before),
                             before.selectionStart.lineNumber + delta, FALSE)
        /\ cursor.position =
               ClampedTarget(TranslatedActive(before),
                             before.position.lineNumber + delta, FALSE)

C17_TargetLineClamped ==
    (~config.virtualSpace /\ hidden = {}) =>
        /\ Called("moveUp") =>
              cursor.position =
                  ClampedTarget(UpStart, UpStart.lineNumber - lastOp.count, TRUE)
        /\ Called("moveDown") =>
              cursor.position =
                  ClampedTarget(DownStart, DownStart.lineNumber + lastOp.count, TRUE)
        /\ TranslateClamps("translateUp", -1)
        /\ TranslateClamps("translateDown", 1)

\* two lines down from the last line but one, from a column inside the line
C17_Witness ==
    /\ ~config.virtualSpace
    /\ hidden = {}
    /\ Called("moveDown")
    /\ lastOp.count = 2
    /\ DownStart.lineNumber = getLineCount - 1
    /\ DownStart.column < getLineMaxColumn(getLineCount)
    /\ cursor.position = Position(getLineCount, getLineMaxColumn(getLineCount))
    /\ translateDown(cursor).position = cursor.position

(***************************************************************************)
(* C18: when the cursor has a selection and extendSelection = false,      *)
(* moveUp starts from the selection's leftmost position and moveDown from *)
(* its rightmost position, with that end's leftover, and both ignore the  *)
(* cursor's column hint: the resulting position and hint are those of a   *)
(* cursor collapsed at that end with a null column hint.  Both copies of  *)
(* moveUp and moveDown are held to it.                                     *)
(***************************************************************************)
\* the cursor collapsed at end e of a selection, without column hint
CollapsedAt(e) ==
    SingleCursorState(Position(e.lineNumber, e.column), e.leftoverVisibleColumns,
                      Position(e.lineNumber, e.column), e.leftoverVisibleColumns, Null)

SameMotion(r, q) == r.position = q.position /\ r.columnHint = q.columnHint

LeavesSelection(name) ==
    /\ Called(name)
    /\ ~lastOp.inSelectionMode
    /\ hasSelection(before, config.virtualSpace)

\* the first copy of moveUp / moveDown
C18_FromSelectionEdge ==
    /\ LeavesSelection("moveUp") =>
          SameMotion(cursor, moveUp(CollapsedAt(leftmostPosition(before)), FALSE, lastOp.count))
    /\ LeavesSelection("moveDown") =>
          SameMotion(cursor,
                     moveDown(CollapsedAt(rightmostPosition(before)), FALSE, lastOp.count))

\* both copies
C18_VerticalFromSelectionEdge ==
    /\ C18_FromSelectionEdge
    /\ LeavesSelection("moveUp") =>
          SameMotion(moveUp2(before, FALSE, lastOp.count),
                     moveUp2(CollapsedAt(leftmostPosition(before)), FALSE, lastOp.count))
    /\ LeavesSelection("moveDown") =>
          SameMotion(moveDown2(before, FALSE, lastOp.count),
                     moveDown2(CollapsedAt(rightmostPosition(before)), FALSE, lastOp.count))

(***************************************************************************)
(* C19: the one-character step of moveLeft / moveRight asks the tab-stop  *)
(* scanner only when stickyTabStops is set and the column lies in the     *)
(* line's indentation (column <= indent column for left, column < indent  *)
(* column for right).  When stickyTabStops is off, the column is outside  *)
(* the indentation, or the scanner returns no stop (-1, or for left a     *)
(* stop before the line's min column), the result is the plain step: one  *)
(* character within the line, the end of the previous line / the start of *)
(* the next line at a line boundary, no movement at the buffer start /    *)
(* end.  (Stated for a model that normalizes every position to itself.)   *)
(***************************************************************************)
\* the stop the scanner reports for the cursor's column, 0-based, or -1
ScannerStop(c, direction) ==
    atomicPosition(getLineContent(c.position.lineNumber), c.position.column - 1,
                   config.tabSize, direction)

UsesStopLeft(c) ==
    /\ config.stickyTabStops
    /\ c.position.column <= getLineIndentColumn(c.position.lineNumber)
    /\ ScannerStop(c, "Left") # -1
    /\ ScannerStop(c, "Left") + 1 >= getLineMinColumn(c.position.lineNumber)

UsesStopRight(c) ==
    /\ config.stickyTabStops
    /\ c.position.column < getLineIndentColumn(c.position.lineNumber)
    /\ ScannerStop(c, "Right") # -1

PlainLeftOf(c) ==
    IF c.position.column > getLineMinColumn(c.position.lineNumber)
    THEN Position(c.position.lineNumber, c.position.column - UnitsLeftOf(c))
    ELSE IF c.position.lineNumber > 1
    THEN Position(c.position.lineNumber - 1, getLineMaxColumn(c.position.lineNumber - 1))
    ELSE c.position

PlainRightOf(c) ==
    IF c.position.column < getLineMaxColumn(c.position.lineNumber)
    THEN Position(c.position.lineNumber, c.position.column + UnitsRightOf(c))
    ELSE IF c.position.lineNumber < getLineCount
    THEN Position(c.position.lineNumber + 1, getLineMinColumn(c.position.lineNumber + 1))
    ELSE c.position

\* the last call was one real step from the cursor's own column
RealStep(name) ==
    /\ OneStep(name)
    /\ hidden = {}
    /\ OnBoundary(before)
    /\ ~hasSelection(before, TRUE)
    /\ config.virtualSpace =>
          /\ before.leftoverVisibleColumns = 0
          /\ name = "moveLeft" =>
                before.position.column > getLineMinColumn(before.position.lineNumber)
          /\ name = "moveRight" =>
                before.position.column < getLineMaxColumn(before.position.lineNumber)

C19_PlainStepUnlessTabStop ==
    /\ RealStep("moveLeft") =>
          cursor.position =
              IF UsesStopLeft(before)
              THEN Position(before.position.lineNumber, ScannerStop(before, "Left") + 1)
              ELSE PlainLeftOf(before)
    /\ RealStep("moveRight") =>
          cursor.position =
              IF UsesStopRight(before)
              THEN Position(before.position.lineNumber, ScannerStop(before, "Right") + 1)
              ELSE PlainRightOf(before)

\* sticky tab stops, a column inside the indentation, and no stop found
C19_Witness ==
    /\ RealStep("moveLeft")
    /\ config.stickyTabStops
    /\ before.position.column <= getLineIndentColumn(before.position.lineNumber)
    /\ before.position.column > 1
    /\ ScannerStop(before, "Left") = -1
    /\ cursor.position = PlainLeftOf(before)

(***************************************************************************)
(* C20: every result of vertical with a non-null column hint satisfies    *)
(* columnHint = visible column of the result position + leftover, and a   *)
(* non-null column hint given to vertical is returned unchanged or        *)
(* cleared to null, never replaced by another number.  Checked on the     *)
(* results moveUp and moveDown return and on the two calls each of        *)
(* translateUp and translateDown makes.                                    *)
(***************************************************************************)
HintMatchesPosition(r) ==
    r.columnHint # Null =>
        r.columnHint = VisibleColumnAt(Position(r.lineNumber, r.column))
                           + r.leftoverVisibleColumns

HintKeptOrCleared(columnHint, r) ==
    columnHint # Null => r.columnHint \in {columnHint, Null}

VerticalResult(columnHint, r) ==
    /\ HintMatchesPosition(r)
    /\ HintKeptOrCleared(columnHint, r)

\* the result of vertical a moveUp / moveDown wrapped into the cursor
Returned(c) ==
    CursorPosition(c.position.lineNumber, c.position.column, c.leftoverVisibleColumns,
                   c.columnHint)

\* the two calls of vertical a translateDown makes: one for each end
TranslateDownResults(c) ==
    {down(c.selectionStart.lineNumber, c.selectionStart.column,
          c.selectionStartLeftoverVisibleColumns, c.columnHint, 1, FALSE),
     down(c.position.lineNumber, c.position.column, c.leftoverVisibleColumns,
          c.columnHint, 1, FALSE)}

TranslateUpResults(c) ==
    {up(c.selectionStart.lineNumber, c.selectionStart.column,
        c.selectionStartLeftoverVisibleColumns, c.columnHint, 1, FALSE),
     up(c.position.lineNumber, c.position.column, c.leftoverVisibleColumns,
        c.columnHint, 1, FALSE)}

C20_HintIsVisibleColumnPlusLeftover ==
    /\ Called("moveUp") => VerticalResult(UpStart.columnHint, Returned(cursor))
    /\ Called("moveDown") => VerticalResult(DownStart.columnHint, Returned(cursor))
    /\ Called("translateDown") =>
          \A r \in TranslateDownResults(before) : VerticalResult(before.columnHint, r)
    /\ Called("translateUp") =>
          \A r \in TranslateUpResults(before) : VerticalResult(before.columnHint, r)

\* a hint given to moveDown comes back unchanged, next to a leftover
C20_Witness ==
    /\ Called("moveDown")
    /\ DownStart.columnHint # Null
    /\ cursor.columnHint = DownStart.columnHint
    /\ cursor.leftoverVisibleColumns > 0
    /\ cursor.position.lineNumber > DownStart.lineNumber

(***************************************************************************)
(* C21 (as stated): with virtual space on, identity normalization, no     *)
(* selection and columnCount = 1, from any cursor whose leftover is 0 or  *)
(* whose column is the line's max column, moveRight followed by moveLeft  *)
(* returns the same (line, column, leftoverVisibleColumns), the buffer    *)
(* end included; a moveRight at the line end raises the leftover by       *)
(* exactly 1 and a moveLeft in virtual space lowers it by exactly 1.      *)
(***************************************************************************)
AtMaxColumn(c) == c.position.column = getLineMaxColumn(c.position.lineNumber)

\* the cursors the round trip is stated for
OutsideOrAtLineEnd(c) == c.leftoverVisibleColumns = 0 \/ AtMaxColumn(c)

SamePlace(c, d) ==
    /\ c.position = d.position
    /\ c.leftoverVisibleColumns = d.leftoverVisibleColumns

\* no selection: none in the virtual space either
VirtualStep(name) ==
    /\ config.virtualSpace
    /\ hidden = {}
    /\ OneStep(name)
    /\ ~hasSelection(before, TRUE)

LeftoverSteps ==
    /\ (VirtualStep("moveRight") /\ AtMaxColumn(before)) =>
          /\ cursor.position = before.position
          /\ cursor.leftoverVisibleColumns = before.leftoverVisibleColumns + 1
    /\ (VirtualStep("moveLeft") /\ AtMaxColumn(before)
            /\ before.leftoverVisibleColumns > 0) =>
          /\ cursor.position = before.position
          /\ cursor.leftoverVisibleColumns = before.leftoverVisibleColumns - 1

C21_VirtualRoundTripAnyConfig ==
    /\ (VirtualStep("moveRight") /\ OutsideOrAtLineEnd(before)) =>
          SamePlace(moveLeft(cursor, FALSE, 1), before)
    /\ LeftoverSteps

(***************************************************************************)
(* C21 (amended): the same round trip and the same leftover steps, when   *)
(* either stickyTabStops is off or the column is not inside the line's    *)
(* indentation.                                                            *)
(***************************************************************************)
C21_VirtualRoundTrip ==
    /\ (/\ VirtualStep("moveRight")
        /\ OutsideOrAtLineEnd(before)
        /\ (~config.stickyTabStops \/ ~InIndent(before))) =>
          SamePlace(moveLeft(cursor, FALSE, 1), before)
    /\ LeftoverSteps

\* at the end of the buffer, already in virtual space: one column further
\* right and back
C21_Witness ==
    /\ VirtualStep("moveRight")
    /\ atBufferEnd(before)
    /\ before.leftoverVisibleColumns > 0
    /\ cursor.leftoverVisibleColumns = before.leftoverVisibleColumns + 1
    /\ SamePlace(moveLeft(cursor, FALSE, 1), before)

====
